---- MODULE Spec2Model ----
(***************************************************************************)
(* Model of forensic_parser.py: one run of the log inspector script.       *)
(*                                                                         *)
(*   upload -> parse loop -> DataFrame / empty check -> summary tab ->     *)
(*   timeline tab (10 s aggregation) -> anomalies tab (z-score, then       *)
(*   isolation forest) -> IP map tab -> export                             *)
(*                                                                         *)
(* Log lines are sequences of one-character strings, and the six regular   *)
(* expressions of extract_log_details are evaluated on the characters.     *)
(* Optional values (Python None) are sequences of length 0 or 1.           *)
(***************************************************************************)
EXTENDS Integers, Sequences, FiniteSets, TLC

VARIABLES
    pc,            \* position of the script
    uploaded,      \* the lines read so far, in reading order
    filetype,      \* `filetype` of the file being read
    nfiles,        \* number of files opened so far
    records,       \* `records`
    origin,        \* for each record, the index in `uploaded` of its line
    df_logs,       \* the rows of `df_logs`
    event_counts,  \* `event_counts`: rows [time, count]
    zscore,        \* the column event_counts["zscore"]
    z_outliers,    \* `z_outliers`, as the set of its row numbers
    isoforest,     \* the column event_counts["isoforest"]
    ips,           \* `ips` of the IP map tab
    merged_geo,    \* `merged_geo`
    export,        \* the download offered by the export section
    stages         \* the stages executed so far, in order

vars == <<pc, uploaded, filetype, nfiles, records, origin, df_logs,
          event_counts, zscore, z_outliers, isoforest, ips, merged_geo,
          export, stages>>

-----------------------------------------------------------------------------
(* Bounds                                                                  *)

MaxLines == 3      \* lines read in one run, over all files
MaxFiles == 2      \* files uploaded in one run
MaxBuckets == 6    \* buckets of a drawn bucket sequence
NumTrees == 2      \* trees of the isolation forest

-----------------------------------------------------------------------------
(* Optional values and small helpers                                       *)

None == << >>
Some(v) == << v >>
IsNone(x) == Len(x) = 0
Val(x) == x[1]

Min(S) == CHOOSE x \in S : \A y \in S : x <= y
Max(S) == CHOOSE x \in S : \A y \in S : x >= y

RECURSIVE SumSeq(_)
SumSeq(s) == IF s = << >> THEN 0 ELSE s[1] + SumSeq(Tail(s))

-----------------------------------------------------------------------------
(* Characters and the regular expressions of extract_log_details           *)

DigitChars == {"0", "1", "2", "3", "4", "5", "6", "7", "8", "9"}
LetterChars == {"a", "b", "x", "R", "X", "t", "s", "u", "r", "p", "i", "d",
                "E", "V", "N", "T", "I", "P", "v", "l", "o", "g"}
WordChars == DigitChars \cup LetterChars \cup {"_"}
IpChars == DigitChars \cup {"."}
AnyChars == WordChars \cup {".", "[", "]", ":", "-", "=", ">", "/", " "}

\* the literal `lit` stands in `line` at position p
LitAt(line, p, lit) ==
    /\ p + Len(lit) - 1 <= Len(line)
    /\ \A k \in 1..Len(lit) : line[p + k - 1] = lit[k]

\* end of the longest run of characters of class cls starting at position q
\* (q - 1 when the run is empty): a greedy `cls+`
RunEnd(line, q, cls) ==
    LET stops == {k \in q..Len(line) : line[k] \notin cls}
    IN  IF stops = {} THEN Len(line) ELSE Min(stops) - 1

\* the pattern  lit (cls+) tail  matches at position p
MatchAt(line, p, lit, cls, tail) ==
    /\ LitAt(line, p, lit)
    /\ LET q == p + Len(lit)
           e == RunEnd(line, q, cls)
       IN  /\ e >= q
           /\ LitAt(line, e + 1, tail)

\* re.search(pattern, entry) and .group(1): the capture of the leftmost
\* match, None when the pattern matches nowhere
Search(line, lit, cls, tail) ==
    LET ps == {p \in 1..Len(line) : MatchAt(line, p, lit, cls, tail)}
    IN  IF ps = {} THEN None
        ELSE LET p == Min(ps)
                 q == p + Len(lit)
             IN  Some(SubSeq(line, q, RunEnd(line, q, cls)))

DigitVal(c) ==
    CASE c = "0" -> 0 [] c = "1" -> 1 [] c = "2" -> 2 [] c = "3" -> 3
      [] c = "4" -> 4 [] c = "5" -> 5 [] c = "6" -> 6 [] c = "7" -> 7
      [] c = "8" -> 8 [] c = "9" -> 9

\* int(s) of a string of decimal digits
RECURSIVE ParseInt(_)
ParseInt(s) ==
    IF s = << >> THEN 0
    ELSE 10 * ParseInt(SubSeq(s, 1, Len(s) - 1)) + DigitVal(s[Len(s)])

OptInt(m) == IF IsNone(m) THEN None ELSE Some(ParseInt(Val(m)))

\* EVNT:(XR-\w+) : the capture keeps the XR- prefix
SearchEvent(line) ==
    LET m == Search(line, <<"E", "V", "N", "T", ":", "X", "R", "-">>,
                    WordChars, << >>)
    IN  IF IsNone(m) THEN None ELSE Some(<<"X", "R", "-">> \o Val(m))

\* =>/(.+) : the rest of the line, given its leading slash back
SearchPath(line) ==
    LET m == Search(line, <<"=", ">", "/">>, AnyChars, << >>)
    IN  IF IsNone(m) THEN None ELSE Some(<<"/">> \o Val(m))

\* the time pattern without its closing bracket: \[ts:(\d+)
extract_log_details_Unclosed(entry, ftype) ==
    [time   |-> OptInt(Search(entry, <<"[", "t", "s", ":">>, DigitChars, << >>)),
     event  |-> SearchEvent(entry),
     user   |-> Search(entry, <<"u", "s", "r", ":">>, WordChars, << >>),
     ip     |-> Search(entry, <<"I", "P", ":">>, IpChars, << >>),
     path   |-> SearchPath(entry),
     pid    |-> OptInt(Search(entry, <<"p", "i", "d">>, DigitChars, << >>)),
     format |-> ftype]

extract_log_details(entry, ftype) ==
    [time   |-> OptInt(Search(entry, <<"[", "t", "s", ":">>, DigitChars, <<"]">>)),
     event  |-> SearchEvent(entry),
     user   |-> Search(entry, <<"u", "s", "r", ":">>, WordChars, << >>),
     ip     |-> Search(entry, <<"I", "P", ":">>, IpChars, << >>),
     path   |-> SearchPath(entry),
     pid    |-> OptInt(Search(entry, <<"p", "i", "d">>, DigitChars, << >>)),
     format |-> ftype]

\* truth value of parsed["time"] in `if parsed["time"]:`
\* (None and the integer 0 are both false in Python)
Truthy(t) == ~IsNone(t) /\ Val(t) # 0

-----------------------------------------------------------------------------
(* Inputs: file names and log lines                                        *)

Sp == <<" ">>
TsTok(d) == <<"[", "t", "s", ":">> \o d \o <<"]">>
IpTok(a) == <<"I", "P", ":">> \o a
Ip1 == <<"1", ".", "1">>
Ip9 == <<"9", ".", "9">>

SampleLines ==
    { TsTok(<<"0">>) \o Sp \o IpTok(Ip1),                    \* [ts:0] IP:1.1
      TsTok(<<"7">>) \o Sp \o <<"E", "V", "N", "T", ":", "X", "R", "-", "a">>
          \o Sp \o <<"=", ">", "/", "b">>,                  \* [ts:7] EVNT:XR-a =>/b
      TsTok(<<"0", "1", "2">>) \o Sp \o <<"u", "s", "r", ":", "a", "l">>,
      IpTok(Ip9),                                           \* IP:9.9
      TsTok(<< >>) \o Sp \o <<"[", "t", "s", ":", "6">> \o Sp \o IpTok(Ip9),
                                                            \* [ts:] [ts:6 IP:9.9
      TsTok(<<"3", "5">>) \o Sp \o IpTok(Ip1) \o Sp \o <<"p", "i", "d", "4">>,
      TsTok(<<"4", "x">>) \o Sp \o TsTok(<<"2", "1">>) }     \* [ts:4x] [ts:21]

FileNames == { <<"a", ".", "t", "x", "t">>, <<"b", ".", "v", "l", "o", "g">> }

UpperChar(c) ==
    CASE c = "t" -> "T" [] c = "x" -> "X" [] c = "v" -> "V" [] c = "l" -> "L"
      [] c = "o" -> "O" [] c = "g" -> "G" [] c = "a" -> "A" [] c = "b" -> "B"
      [] OTHER -> c

\* file.name.split('.')[-1].upper()
FileTypeOf(name) ==
    LET dots == {k \in 1..Len(name) : name[k] = "."}
        from == IF dots = {} THEN 1 ELSE Max(dots) + 1
    IN  [k \in 1..(Len(name) - from + 1) |-> UpperChar(name[from + k - 1])]

-----------------------------------------------------------------------------
(* Parsing: upload check, parse loop, DataFrame and empty check            *)

Init ==
    /\ pc = "upload"
    /\ uploaded = << >>
    /\ filetype = << >>
    /\ nfiles = 0
    /\ records = << >>
    /\ origin = << >>
    /\ df_logs = << >>
    /\ event_counts = << >>
    /\ zscore = << >>
    /\ z_outliers = {}
    /\ isoforest = << >>
    /\ ips = {}
    /\ merged_geo = << >>
    /\ export = None
    /\ stages = << >>

\* `if not uploaded_files: st.warning(...); st.stop()`
NoUpload ==
    /\ pc = "upload"
    /\ pc' = "no_files"
    /\ UNCHANGED <<uploaded, filetype, nfiles, records, origin, df_logs,
                   event_counts, zscore, z_outliers, isoforest, ips,
                   merged_geo, export, stages>>

\* `for file in uploaded_files:` takes the next file
OpenFile(name) ==
    /\ pc \in {"upload", "parsing"}
    /\ nfiles < MaxFiles
    /\ nfiles' = nfiles + 1
    /\ filetype' = FileTypeOf(name)
    /\ pc' = "parsing"
    /\ UNCHANGED <<uploaded, records, origin, df_logs, event_counts, zscore,
                   z_outliers, isoforest, ips, merged_geo, export, stages>>

\* one turn of `for line in content:`
ParseLine(line) ==
    /\ pc = "parsing"
    /\ Len(uploaded) < MaxLines
    /\ uploaded' = Append(uploaded, line)
    /\ LET parsed == extract_log_details(line, filetype)
       IN  IF Truthy(parsed.time)
           THEN /\ records' = Append(records, parsed)
                /\ origin' = Append(origin, Len(uploaded) + 1)
           ELSE UNCHANGED <<records, origin>>
    /\ UNCHANGED <<pc, filetype, nfiles, df_logs, event_counts, zscore,
                   z_outliers, isoforest, ips, merged_geo, export, stages>>

\* pd.to_datetime(t, unit="s"): the instant t seconds after the epoch
ToDatetime(t) == Val(t)

\* the empty check left out
BuildFrame_NoCheck ==
    /\ pc = "parsing"
    /\ stages' = Append(stages, "parse")
    /\ df_logs' = [i \in 1..Len(records) |->
                      [records[i] EXCEPT !.time = ToDatetime(@)]]
    /\ pc' = "summary"
    /\ UNCHANGED <<uploaded, filetype, nfiles, records, origin, event_counts,
                   zscore, z_outliers, isoforest, ips, merged_geo, export>>

\* the loops are over: df_logs = pd.DataFrame(records), then the empty check
BuildFrame ==
    /\ pc = "parsing"
    /\ stages' = Append(stages, "parse")
    /\ IF records # << >>
       THEN /\ df_logs' = [i \in 1..Len(records) |->
                              [records[i] EXCEPT !.time = ToDatetime(@)]]
            /\ pc' = "summary"
       ELSE /\ df_logs' = << >>
            /\ pc' = "no_entries"
    /\ UNCHANGED <<uploaded, filetype, nfiles, records, origin, event_counts,
                   zscore, z_outliers, isoforest, ips, merged_geo, export>>

\* the summary tab only writes counts to the page
Summary ==
    /\ pc = "summary"
    /\ pc' = "timeline"
    /\ UNCHANGED <<uploaded, filetype, nfiles, records, origin, df_logs,
                   event_counts, zscore, z_outliers, isoforest, ips,
                   merged_geo, export, stages>>

-----------------------------------------------------------------------------
(* Timeline tab: the 10 second aggregation                                 *)

Width == 10            \* freq="10S"
DaySeconds == 86400    \* the Grouper's default origin is "start_day"

\* the bin edge at or before instant t, bins being laid out from the
\* midnight before the first row
FloorToBin(t, start) == start + ((t - start) \div Width) * Width

\* the bins laid out without the one that holds the largest time
Aggregate_ShortRange(rows) ==
    LET times == {rows[i].time : i \in 1..Len(rows)}
        start == (Min(times) \div DaySeconds) * DaySeconds
        first == FloorToBin(Min(times), start)
        last  == FloorToBin(Max(times), start)
        nbins == (last - first) \div Width
        binOf(t) == (t - first) \div Width + 1
    IN  [k \in 1..nbins |->
            [time  |-> first + (k - 1) * Width,
             count |-> Cardinality({i \in 1..Len(rows) : binOf(rows[i].time) = k})]]

\* a plain groupby on the floored time: only the windows that hold an Event
Aggregate_OnlyOccupied(rows) ==
    LET times == {rows[i].time : i \in 1..Len(rows)}
        start == (Min(times) \div DaySeconds) * DaySeconds
        first == FloorToBin(Min(times), start)
        last  == FloorToBin(Max(times), start)
        nbins == (last - first) \div Width + 1
        binOf(t) == (t - first) \div Width + 1
        all == [k \in 1..nbins |->
                 [time  |-> first + (k - 1) * Width,
                  count |-> Cardinality({i \in 1..Len(rows) : binOf(rows[i].time) = k})]]
    IN  SelectSeq(all, LAMBDA b : b.count > 0)

\* df_logs.groupby(pd.Grouper(key="time", freq="10S")).size()
\*        .reset_index(name="count")
Aggregate(rows) ==
    LET times == {rows[i].time : i \in 1..Len(rows)}
        start == (Min(times) \div DaySeconds) * DaySeconds
        first == FloorToBin(Min(times), start)
        last  == FloorToBin(Max(times), start)
        nbins == (last - first) \div Width + 1
        binOf(t) == (t - first) \div Width + 1
    IN  [k \in 1..nbins |->
            [time  |-> first + (k - 1) * Width,
             count |-> Cardinality({i \in 1..Len(rows) : binOf(rows[i].time) = k})]]

Counts(ec) == [k \in 1..Len(ec) |-> ec[k].count]

Timeline ==
    /\ pc = "timeline"
    /\ event_counts' = Aggregate(df_logs)
    /\ stages' = Append(stages, "aggregate")
    /\ pc' = "alerts_z"
    /\ UNCHANGED <<uploaded, filetype, nfiles, records, origin, df_logs,
                   zscore, z_outliers, isoforest, ips, merged_geo, export>>

-----------------------------------------------------------------------------
(* Anomalies tab, z-score method                                           *)
(*                                                                         *)
(* With n counts c_1..c_n, S their sum and Q the sum of their squares,     *)
(* scipy.stats.zscore(c, ddof) is  z_i = (c_i - S/n) / std  with           *)
(* std^2 = (Q - S^2/n) / (n - ddof), so                                    *)
(*     z_i = num_i * sqrt(mult / den),                                     *)
(*     num_i = n*c_i - S,  mult = n - ddof,  den = n * (n*Q - S^2).        *)
(* A z-score is kept exactly as [nan, num, mult, den].  When every count   *)
(* is the same, std is 0, the division is 0.0 / 0.0 and the value is NaN.  *)

Ddof == 0    \* stats.zscore is called without ddof: the default, 0

NaN == [nan |-> TRUE, num |-> 0, mult |-> 0, den |-> 0]

SumSq(c) == SumSeq([k \in 1..Len(c) |-> c[k] * c[k]])

\* the standard deviation taken with the divisor n - 1
ZScoreOf_SampleStd(c) ==
    LET n == Len(c)
        S == SumSeq(c)
        Q == SumSq(c)
        v == n * Q - S * S
    IN  [i \in 1..n |->
            IF v = 0 \/ n - 1 = 0 THEN NaN
            ELSE [nan |-> FALSE, num |-> n * c[i] - S, mult |-> n - 1,
                  den |-> n * v]]

\* stats.zscore(event_counts["count"])
ZScoreOf(c) ==
    LET n == Len(c)
        S == SumSeq(c)
        Q == SumSq(c)
        v == n * Q - S * S
    IN  [i \in 1..n |->
            IF v = 0 \/ n - Ddof = 0 THEN NaN
            ELSE [nan |-> FALSE, num |-> n * c[i] - S, mult |-> n - Ddof,
                  den |-> n * v]]

\* the sign of |z| - 2 in exact arithmetic
CompareTo2(z) ==
    LET a == z.num * z.num * z.mult
        b == 4 * z.den
    IN  IF a > b THEN 1 ELSE IF a < b THEN -1 ELSE 0

\* The column holds float64 values.  Where |z| is exactly 2 the computed
\* value is 2.0 or one of its neighbours, and which one depends on the
\* counts.  Among five counts |z| = 2 happens exactly for one count b beside
\* four equal counts a; evaluating mean, std and the division in float64
\* gives, for the score of b,
\*     a = 5, b = 2 :  -2.0000000000000004        (above 2 in magnitude)
\*     every other pair a, b of 0, 2, 5, 50 :  2.0 or 1.9999999999999998
\* Elsewhere the outcome of the rounding is left open.
Float64Above == { <<5, 2>> }
Float64NotAbove ==
    { <<0, 2>>, <<0, 5>>, <<0, 50>>, <<2, 0>>, <<2, 5>>, <<2, 50>>,
      <<5, 0>>, <<5, 50>>, <<50, 0>>, <<50, 2>>, <<50, 5>> }

\* the possible outcomes of `abs(z_i) > 2` when |z_i| is exactly 2
TieOutcomes(c, i) ==
    LET others == {c[j] : j \in (1..Len(c)) \ {i}}
        pair   == <<CHOOSE a \in others : TRUE, c[i]>>
        known  == Len(c) = 5 /\ Cardinality(others) = 1
    IN  IF known /\ pair \in Float64Above THEN {TRUE}
        ELSE IF known /\ pair \in Float64NotAbove THEN {FALSE}
        ELSE {TRUE, FALSE}

\* `not (abs(z) <= 2)` in place of `abs(z) > 2`: a NaN would be flagged
ExceedsOutcomes_NanFlagged(c, i, z) ==
    IF z.nan THEN {TRUE}
    ELSE IF CompareTo2(z) = 1 THEN {TRUE}
    ELSE IF CompareTo2(z) = -1 THEN {FALSE}
    ELSE TieOutcomes(c, i)

\* The possible outcomes of `abs(zscore) > 2` for bucket i.  A NaN compares
\* false.  Off the value 2 the integers num^2 * mult and 4 * den differ by
\* at least 1, far more than the rounding error, and the comparison is the
\* exact one.
ExceedsOutcomes(c, i, z) ==
    IF z.nan THEN {FALSE}
    ELSE IF CompareTo2(z) = 1 THEN {TRUE}
    ELSE IF CompareTo2(z) = -1 THEN {FALSE}
    ELSE TieOutcomes(c, i)

\* event_counts["zscore"] = ...; z_outliers = event_counts[abs(...) > 2]
ZScore ==
    /\ pc = "alerts_z"
    /\ zscore' = ZScoreOf(Counts(event_counts))
    /\ \E flag \in [1..Len(event_counts) -> BOOLEAN] :
          /\ \A i \in 1..Len(event_counts) :
                flag[i] \in ExceedsOutcomes(Counts(event_counts), i, zscore'[i])
          /\ z_outliers' = {i \in 1..Len(event_counts) : flag[i]}
    /\ stages' = Append(stages, "zscore")
    /\ pc' = "alerts_iso"
    /\ UNCHANGED <<uploaded, filetype, nfiles, records, origin, df_logs,
                   event_counts, isoforest, ips, merged_geo, export>>

-----------------------------------------------------------------------------
(* Anomalies tab, isolation forest                                         *)
(*                                                                         *)
(* IsolationForest(contamination=0.05, random_state=42) on the one feature *)
(* "count", one sample per bucket.  With n <= 256 samples every tree is    *)
(* grown on all n of them (max_samples = min(256, n), no bootstrap), to    *)
(* depth at most ceil(log2(max(n, 2))).  A node splits at a threshold      *)
(* drawn between the smallest and the largest count in it; the draws come  *)
(* from the seeded generator and are modelled as a free choice, so the     *)
(* seed 42 is one of the forests considered.  Path lengths are kept in     *)
(* millionths.                                                             *)

Contamination == 5     \* contamination=0.05, in percent
Micro == 1000000       \* path lengths are in millionths

\* _average_path_length(n): 0 for n <= 1, 1 for n = 2, otherwise
\* 2 * (ln(n - 1) + 0.5772156649) - 2 * (n - 1) / n, here for n = 1..12
AvgPathTable ==
    << 0, 1000000, 1207392, 1851656, 2327020, 2706640,
       3023665, 3296252, 3535537, 3748880, 3941420, 4116889 >>

AvgPath(n) == IF n <= 1 THEN 0 ELSE AvgPathTable[n]

RECURSIVE CeilLog2(_)
CeilLog2(n) == IF n <= 1 THEN 0 ELSE 1 + CeilLog2((n + 1) \div 2)

\* max_depth of every tree
TreeDepth(n) == CeilLog2(IF n < 2 THEN 2 ELSE n)

\* number of samples whose count is one of vs
NodeSize(c, vs) == Cardinality({i \in 1..Len(c) : c[i] \in vs})

\* The path lengths one tree can give to the counts vs that reach a node at
\* depth d: a leaf when the node holds one distinct count (a single sample,
\* or a constant feature) or sits at the depth limit, else any split
\* "count <= a" with a below the largest count of the node.
RECURSIVE TreePaths(_, _, _, _)
TreePaths(c, vs, d, limit) ==
    IF Cardinality(vs) = 1 \/ d >= limit
    THEN { [v \in vs |-> d * Micro + AvgPath(NodeSize(c, vs))] }
    ELSE UNION { LET left  == {v \in vs : v <= a}
                     right == vs \ left
                 IN  { [v \in vs |-> IF v \in left THEN l[v] ELSE r[v]] :
                         l \in TreePaths(c, left, d + 1, limit),
                         r \in TreePaths(c, right, d + 1, limit) }
               : a \in vs \ {Max(vs)} }

\* the summed path lengths the forests of k trees can give
RECURSIVE ForestPaths(_, _)
ForestPaths(c, k) ==
    LET vs == {c[i] : i \in 1..Len(c)}
        one == TreePaths(c, vs, 0, TreeDepth(Len(c)))
    IN  IF k = 1 THEN one
        ELSE { [v \in vs |-> f[v] + g[v]] : f \in ForestPaths(c, k - 1), g \in one }

\* the k-th smallest (k from 0) of the samples' path lengths
OrderStat(c, h, k) ==
    CHOOSE x \in {h[c[i]] : i \in 1..Len(c)} :
        /\ Cardinality({i \in 1..Len(c) : h[c[i]] < x}) <= k
        /\ Cardinality({i \in 1..Len(c) : h[c[i]] <= x}) > k

\* the labels the other way round: -1 for the samples at or above offset_
Predict_Swapped(c, h) ==
    LET n    == Len(c)
        pos  == Contamination * (n - 1)
        lo   == pos \div 100
        frac == pos % 100
        atLo == OrderStat(c, h, lo)
        open == frac = 0 \/ OrderStat(c, h, lo + 1) = atLo
    IN  [i \in 1..n |->
            IF h[c[i]] < atLo \/ (~open /\ h[c[i]] = atLo) THEN 1 ELSE -1]

\* iso_model.predict: -1 where score_samples < offset_, else 1.
\* score_samples = -2^(-h / (trees * AvgPath(n))) grows with the summed path
\* length h, and offset_ = np.percentile(scores, 5) lies at position
\* 0.05 * (n - 1) of the sorted scores, linearly interpolated: a sample is
\* below it when its path length is below the order statistic at the floor
\* of that position, or equal to it when the position is fractional and the
\* next order statistic is larger.
Predict(c, h) ==
    LET n    == Len(c)
        pos  == Contamination * (n - 1)
        lo   == pos \div 100
        frac == pos % 100
        atLo == OrderStat(c, h, lo)
        open == frac = 0 \/ OrderStat(c, h, lo + 1) = atLo
    IN  [i \in 1..n |->
            IF h[c[i]] < atLo \/ (~open /\ h[c[i]] = atLo) THEN -1 ELSE 1]

\* iso_model = IsolationForest(...).fit(...); event_counts["isoforest"] = predict
IsoForest ==
    /\ pc = "alerts_iso"
    /\ \E h \in ForestPaths(Counts(event_counts), NumTrees) :
          isoforest' = Predict(Counts(event_counts), h)
    /\ stages' = Append(stages, "isoforest")
    /\ pc' = "geo"
    /\ UNCHANGED <<uploaded, filetype, nfiles, records, origin, df_logs,
                   event_counts, zscore, z_outliers, ips, merged_geo, export>>

IsoOutliers == {i \in 1..Len(isoforest) : isoforest[i] = -1}

-----------------------------------------------------------------------------
(* IP map tab and export                                                   *)

\* df_logs["ip"].dropna().unique()
UniqueIps(rows) == {Val(rows[i].ip) : i \in {j \in 1..Len(rows) : ~IsNone(rows[j].ip)}}

\* fetch_ip_location answers with a location or with four None; the rows of
\* merged_geo are those whose IP got a location.  With no IP at all geo_data
\* has no "ip" column and the merge raises KeyError.
Geo ==
    /\ pc = "geo"
    /\ ips' = UniqueIps(df_logs)
    /\ IF ips' = {}
       THEN /\ merged_geo' = << >>
            /\ pc' = "error"
       ELSE /\ \E located \in SUBSET ips' :
                  merged_geo' = SelectSeq(df_logs,
                      LAMBDA r : ~IsNone(r.ip) /\ Val(r.ip) \in located)
            /\ pc' = "export"
    /\ stages' = Append(stages, "geo")
    /\ UNCHANGED <<uploaded, filetype, nfiles, records, origin, df_logs,
                   event_counts, zscore, z_outliers, isoforest, export>>

\* export_df["time"].astype(str): date and time of day
TimeStr(t) ==
    [day |-> t \div DaySeconds,
     hh  |-> (t % DaySeconds) \div 3600,
     mm  |-> (t % 3600) \div 60,
     ss  |-> t % 60]

Export(fmt) ==
    /\ pc = "export"
    /\ export' = Some([format |-> fmt,
                       rows |-> [i \in 1..Len(df_logs) |->
                                    [df_logs[i] EXCEPT !.time = TimeStr(@)]]])
    /\ stages' = Append(stages, "export")
    /\ pc' = "done"
    /\ UNCHANGED <<uploaded, filetype, nfiles, records, origin, df_logs,
                   event_counts, zscore, z_outliers, isoforest, ips, merged_geo>>

-----------------------------------------------------------------------------
(* The run of the script                                                   *)

Next ==
    \/ NoUpload
    \/ \E name \in FileNames : OpenFile(name)
    \/ \E line \in SampleLines : ParseLine(line)
    \/ BuildFrame
    \/ Summary
    \/ Timeline
    \/ ZScore
    \/ IsoForest
    \/ Geo
    \/ \E fmt \in {"JSON", "CSV", "TXT"} : Export(fmt)

Spec == Init /\ [][Next]_vars

-----------------------------------------------------------------------------
(* The anomalies tab on drawn bucket sequences                             *)
(*                                                                         *)
(* Both detection methods are functions of the column "count" alone.       *)
(* InitDetect starts the script at the anomalies tab with a bucket         *)
(* sequence drawn from CountVals, its first and last bucket non-empty as   *)
(* the aggregation leaves them; the parsing state is not part of this      *)
(* specification.                                                          *)

CountVals == {0, 2, 5, 50}

BucketSeqs ==
    UNION { {c \in [1..n -> CountVals] : c[1] > 0 /\ c[n] > 0} : n \in 1..MaxBuckets }

InitDetect ==
    /\ pc = "alerts_z"
    /\ \E c \in BucketSeqs :
          event_counts = [k \in 1..Len(c) |-> [time |-> (k - 1) * Width, count |-> c[k]]]
    /\ stages = <<"parse", "aggregate">>
    /\ uploaded = << >>
    /\ filetype = << >>
    /\ nfiles = 0
    /\ records = << >>
    /\ origin = << >>
    /\ df_logs = << >>
    /\ zscore = << >>
    /\ z_outliers = {}
    /\ isoforest = << >>
    /\ ips = {}
    /\ merged_geo = << >>
    /\ export = None

NextDetect == ZScore \/ IsoForest

SpecDetect == InitDetect /\ [][NextDetect]_vars

-----------------------------------------------------------------------------
(* Properties                                                              *)

\* the line contains a token [ts:<digits>] whose digits start at position q
\* and are m long
TsTokenAt(line, q, m) ==
    /\ SubSeq(line, q - 4, q - 1) = <<"[", "t", "s", ":">>
    /\ \A k \in q..(q + m - 1) : line[k] \in DigitChars
    /\ line[q + m] = "]"

TsTokens(line) ==
    UNION { { <<q, m>> : m \in {m \in 1..(Len(line) - q) : TsTokenAt(line, q, m)} }
            : q \in {q \in 5..Len(line) : line[q - 1] = ":"} }

HasTsToken(line) == TsTokens(line) # {}

\* the digits of the leftmost [ts:<digits>] token of the line
FirstTsDigits(line) ==
    LET t == CHOOSE t \in TsTokens(line) : \A u \in TsTokens(line) : t[1] <= u[1]
    IN  SubSeq(line, t[1], t[1] + t[2] - 1)

RECURSIVE Pow10(_)
Pow10(k) == IF k = 0 THEN 1 ELSE 10 * Pow10(k - 1)

DecimalValue(d) ==
    SumSeq([k \in 1..Len(d) |-> DigitVal(d[k]) * Pow10(Len(d) - k)])

\* the line contains the token IP:<a>
HasIpToken(line, a) ==
    \E p \in 1..Len(line) :
        /\ LitAt(line, p, <<"I", "P", ":">> \o a)
        /\ (p + 3 + Len(a) > Len(line) \/ line[p + 3 + Len(a)] \notin IpChars)

Done(stage) == \E k \in 1..Len(stages) : stages[k] = stage

\* C1: every line read that contains a [ts:<digits>] token has an Event in
\* `records`, and the time of that Event is the integer value of the digits.
C1_TsLineIsStored ==
    \A i \in 1..Len(uploaded) :
        HasTsToken(uploaded[i]) =>
            \E j \in 1..Len(records) :
                /\ origin[j] = i
                /\ records[j].time = Some(DecimalValue(FirstTsDigits(uploaded[i])))

\* C2: a line without a [ts:<digits>] token never gets an Event: every
\* record comes from a line with the token, every IP handed to the
\* geolocation lookup and every row of merged_geo and of the export comes
\* from such a line.
C2_NoTsNoEvent ==
    /\ Len(origin) = Len(records)
    /\ \A j \in 1..Len(origin) : HasTsToken(uploaded[origin[j]])
    /\ \A j, k \in 1..Len(origin) : j < k => origin[j] < origin[k]
    /\ \A a \in ips :
          \E i \in 1..Len(uploaded) : HasTsToken(uploaded[i]) /\ HasIpToken(uploaded[i], a)
    /\ \A k \in 1..Len(merged_geo) :
          \E j \in 1..Len(records) : merged_geo[k].ip = records[j].ip
    /\ export # None =>
          /\ Len(Val(export).rows) = Len(records)
          /\ \A j \in 1..Len(records) : Val(export).rows[j].ip = records[j].ip

\* a run that read the line "IP:9.9", looked up another address and offered
\* its export
C2_Witness ==
    /\ pc = "done"
    /\ \E i \in 1..Len(uploaded) : uploaded[i] = IpTok(Ip9)
    /\ ips # {}
    /\ Ip9 \notin ips
    /\ Len(Val(export).rows) >= 1

InWindow(t, b) == b.time <= t /\ t < b.time + 10

\* C3: the bucket counts sum to the number of Events, and every Event lies
\* in the window of exactly one bucket, which counts it.
C3_CountsSumToEvents ==
    Done("aggregate") =>
        /\ SumSeq(Counts(event_counts)) = Len(df_logs)
        /\ \A i \in 1..Len(df_logs) :
              Cardinality({k \in 1..Len(event_counts) :
                              InWindow(df_logs[i].time, event_counts[k])}) = 1
        /\ \A k \in 1..Len(event_counts) :
              event_counts[k].count =
                  Cardinality({i \in 1..Len(df_logs) :
                                  InWindow(df_logs[i].time, event_counts[k])})

\* three Events in several buckets, two of them in the same one
C3_Witness ==
    /\ Done("aggregate")
    /\ Len(df_logs) = 3
    /\ Len(event_counts) >= 2
    /\ \E k \in 1..Len(event_counts) : event_counts[k].count = 2

\* C4: the buckets run from the window of the smallest time to the window
\* of the largest, 10 seconds apart, empty windows included with count 0;
\* when the smallest and the largest time agree there is one bucket.
C4_Gapless ==
    Done("aggregate") =>
        LET times == {df_logs[i].time : i \in 1..Len(df_logs)}
            n == Len(event_counts)
        IN  /\ n >= 1
            /\ InWindow(Min(times), event_counts[1])
            /\ InWindow(Max(times), event_counts[n])
            /\ \A k \in 1..(n - 1) :
                  event_counts[k + 1].time = event_counts[k].time + 10
            /\ \A k \in 1..n :
                  (\A t \in times : ~InWindow(t, event_counts[k]))
                      => event_counts[k].count = 0
            /\ Min(times) = Max(times) => n = 1 /\ event_counts[1].count = Len(df_logs)

\* buckets with an empty window between two non-empty ones
C4_Witness ==
    /\ Done("aggregate")
    /\ \E k \in 2..(Len(event_counts) - 1) : event_counts[k].count = 0

\* the bucket counts, their number, sum and sum of squares
BC == Counts(event_counts)
BN == Len(event_counts)
BS == SumSeq(BC)
BQ == SumSq(BC)

AllEqual == \A i, j \in 1..BN : BC[i] = BC[j]

\* C5: when the counts are not all identical, bucket i is flagged exactly
\* when |c_i - mean| > 2 * sigma with sigma the sample standard deviation
\* (divisor n - 1): (n*c_i - S)^2 * (n - 1) > 4 * n * (n*Q - S^2).
C5_SampleDeviationFlags ==
    (Done("zscore") /\ ~AllEqual) =>
        \A i \in 1..BN :
            i \in z_outliers <=>
                (BN * BC[i] - BS) * (BN * BC[i] - BS) * (BN - 1)
                    > 4 * BN * (BN * BQ - BS * BS)

\* C5, amended: with sigma the population standard deviation (divisor n),
\* bucket i is flagged when |c_i - mean| > 2 * sigma and is not flagged when
\* |c_i - mean| < 2 * sigma: (n*c_i - S)^2 against 4 * (n*Q - S^2).
C5_PopulationDeviationFlags ==
    (Done("zscore") /\ ~AllEqual) =>
        \A i \in 1..BN :
            LET dev2 == (BN * BC[i] - BS) * (BN * BC[i] - BS)
                lim2 == 4 * (BN * BQ - BS * BS)
            IN  /\ dev2 > lim2 => i \in z_outliers
                /\ dev2 < lim2 => i \notin z_outliers

\* a flagged bucket that lies within two sample standard deviations of the
\* mean
C5_Witness ==
    /\ Done("zscore")
    /\ \E i \in z_outliers :
          /\ (BN * BC[i] - BS) * (BN * BC[i] - BS) > 4 * (BN * BQ - BS * BS)
          /\ (BN * BC[i] - BS) * (BN * BC[i] - BS) * (BN - 1)
                 <= 4 * BN * (BN * BQ - BS * BS)

\* C6: when all counts are equal the z-score method flags no bucket and the
\* script goes on to the isolation forest, which can run.
C6_ConstantCountsNoFlag ==
    (Done("zscore") /\ AllEqual) =>
        /\ z_outliers = {}
        /\ pc # "error"
        /\ pc = "alerts_iso" => ENABLED IsoForest
        /\ pc # "alerts_iso" => Done("isoforest")

\* several buckets of the same count, scored by both methods
C6_Witness ==
    /\ Done("isoforest")
    /\ AllEqual
    /\ BN >= 2
    /\ z_outliers = {}

\* C7: when all counts are equal every stored zscore is the number 0.
C7_ZeroWhenConstant ==
    (Done("zscore") /\ AllEqual) =>
        \A i \in 1..BN : ~zscore[i].nan /\ zscore[i].num = 0

StageOrder == <<"parse", "aggregate", "zscore", "isoforest", "geo", "export">>

\* C8: with no Event after parsing the run ends at "no valid entries" and
\* nothing else runs; the stages run in the order parse, aggregate, detect,
\* and aggregation only with at least one Event.
C8_EmptyStoreHalts ==
    /\ (Done("parse") /\ records = << >>) =>
          /\ pc = "no_entries"
          /\ stages = <<"parse">>
          /\ event_counts = << >> /\ zscore = << >> /\ isoforest = << >>
          /\ ips = {} /\ export = None
          /\ ~ENABLED Next
    /\ Len(stages) <= Len(StageOrder)
    /\ stages = SubSeq(StageOrder, 1, Len(stages))
    /\ Done("aggregate") => records # << >>

\* lines were read, none gave an Event, and the run has halted
C8_Witness ==
    /\ pc = "no_entries"
    /\ Len(uploaded) >= 2
    /\ records = << >>

SpikeCounts == <<5, 5, 5, 50, 5, 5>>

\* C9: for the counts 5,5,5,50,5,5 the z-score method flags the fourth
\* bucket (index 3) and no other, and so does the isolation forest.
C9_SpikeFlaggedByBoth ==
    BC = SpikeCounts =>
        /\ Done("zscore") => z_outliers = {4}
        /\ Done("isoforest") => IsoOutliers = {4}

\* the counts 5,5,5,50,5,5 scored by both methods
C9_Witness ==
    /\ BC = SpikeCounts
    /\ Done("isoforest")
    /\ z_outliers = {4}

\* C10: in a sequence of at most 5 buckets the z-score method flags no
\* bucket.
C10_NoFlagUpToFive ==
    (Done("zscore") /\ BN <= 5) => z_outliers = {}

====
